---- MODULE Spec2Model ----
(***************************************************************************)
(* A model of the random-search hyper-parameter optimiser                  *)
(* (RandomSearchHPO.optimize_hyperparams) and of the triples factory       *)
(* (TriplesFactory.__init__ / _create_inverse_triples).                    *)
(*                                                                         *)
(* Python objects that are shared by reference (the one configuration      *)
(* dict and the one evaluation-summary dict that optimize_hyperparams      *)
(* creates before its loop) are modelled as variables holding the object's *)
(* current content; the lists that store them hold references, which are   *)
(* resolved with Deref.                                                    *)
(***************************************************************************)
EXTENDS Integers, Sequences, FiniteSets, TLC

VARIABLES
    \* ---- optimize_hyperparams: arguments and process-wide state ----
    pc,                        \* position inside optimize_hyperparams
    seed,                      \* argument seed
    max_iters,                 \* hyperparams_dict[NUM_OF_MAX_HPO_ITERS]
    embedding_model,           \* hyperparams_dict[KG_EMBEDDING_MODEL]
    eval_metrics,              \* config[EVAL_METRICS]
    py_random_state,           \* state of the generator behind random.choice
    np_random_state,           \* state of the generator behind np.random
    \* ---- optimize_hyperparams: locals ----
    it,                        \* number of loop iterations completed
    param_sampling_fct,        \* the model specific sampler bound before the loop
    kg_embedding_model_config, \* content of the one configuration dict
    eval_summary,              \* content of the one evaluation-summary dict
    kg_embedding_model,        \* model built in the current iteration
    trained_model, epoch_loss, \* what train_model returned in the current iteration
    trained_models, epoch_losses, entity_to_ids, rel_to_ids,
    models_params, eval_summaries, eval_results,
    index_of_max,
    result,                    \* the returned tuple
    error,                     \* the exception that left optimize_hyperparams
    \* ---- TriplesFactory ----
    tf_pc,                     \* "new" before __init__, "built" after it
    triples,                   \* what load_triples(path) yields
    create_inverse_triples,
    entity_to_id_tf, relation_to_id_tf,
    mapped_triples, num_entities, num_relations

hpo_vars == <<pc, seed, max_iters, embedding_model, eval_metrics, py_random_state,
              np_random_state, it, param_sampling_fct, kg_embedding_model_config,
              eval_summary, kg_embedding_model, trained_model, epoch_loss,
              trained_models, epoch_losses, entity_to_ids, rel_to_ids, models_params,
              eval_summaries, eval_results, index_of_max, result, error>>

tf_vars == <<tf_pc, triples, create_inverse_triples, entity_to_id_tf,
             relation_to_id_tf, mapped_triples, num_entities, num_relations>>

vars == <<hpo_vars, tf_vars>>

(***************************************************************************)
(* Bounds of the model.                                                    *)
(***************************************************************************)
MaxIters == 3        \* largest trial budget explored
MaxMetric == 2       \* metric values range over 1..MaxMetric
MaxPrior == 1        \* states 0..MaxPrior the samplers may be in before the call
MaxTriples == 2      \* longest triples file explored

None == "None"

(***************************************************************************)
(* utilities.constants: keys of the configuration dictionaries.            *)
(***************************************************************************)
LEARNING_RATE == "learning_rate"
MARGIN_LOSS == "margin_loss"
EMBEDDING_DIM == "embedding_dim"
BATCH_SIZE == "batch_size"
NUM_EPOCHS == "num_epochs"
KG_EMBEDDING_MODEL == "kg_embedding_model"
NUM_ENTITIES == "num_entities"
NUM_RELATIONS == "num_relations"
SEED == "seed"
NORMALIZATION_OF_ENTITIES == "normalization_of_entities"
MEAN_RANK == "mean_rank"
HITS_AT_K == "hits_at_k"
TRANS_E == "TransE"
TRANS_H == "TransH"
TRANS_D == "TransD"
TRANS_R == "TransR"
CONV_E == "ConvE"
CONV_E_KEYS == <<"ConvE_height", "ConvE_width", "ConvE_input_channels",
                 "ConvE_output_channels", "ConvE_kernel_height",
                 "ConvE_kernel_width", "ConvE_input_dropout",
                 "ConvE_output_dropout", "ConvE_feature_map_dropout">>

\* A model family that is neither translation based nor convolutional.
OTHER_MODEL == "DistMult"

ModelFamilies == {TRANS_E, TRANS_H, TRANS_D, TRANS_R, CONV_E, OTHER_MODEL}

(***************************************************************************)
(* Python dict operations.                                                 *)
(***************************************************************************)
EmptyDict == [k \in {} |-> None]

Put(d, key, value) ==
    [k \in (DOMAIN d) \cup {key} |-> IF k = key THEN value ELSE d[k]]

Update(d, other) ==
    [k \in (DOMAIN d) \cup (DOMAIN other) |->
        IF k \in DOMAIN other THEN other[k] ELSE d[k]]

(***************************************************************************)
(* The fixed inputs of a search: the search space and the id mappings.     *)
(* Learning rates stand for thousandths, dropouts for tenths.              *)
(***************************************************************************)
hyperparams_dict ==
    [k \in {LEARNING_RATE, EMBEDDING_DIM, NUM_EPOCHS, BATCH_SIZE, MARGIN_LOSS,
            NORMALIZATION_OF_ENTITIES}
           \cup {CONV_E_KEYS[i] : i \in 1..Len(CONV_E_KEYS)} |->
        CASE k = LEARNING_RATE -> <<1, 10>>
          [] k = EMBEDDING_DIM -> <<50, 100>>
          [] k = NUM_EPOCHS -> <<1, 2>>
          [] k = BATCH_SIZE -> <<32, 64>>
          [] k = MARGIN_LOSS -> <<1, 2>>
          [] k = NORMALIZATION_OF_ENTITIES -> <<1, 2>>
          [] OTHER -> <<2, 3>>]

entity_to_id == [e \in {"a", "b", "c"} |->
                    CASE e = "a" -> 0 [] e = "b" -> 1 [] e = "c" -> 2]

rel_to_id == [r \in {"knows"} |-> 0]

Seeds == {0, 1}

(***************************************************************************)
(* The pseudo random generator behind random.choice: a deterministic       *)
(* function of its state, here a generator of period RngMod.               *)
(***************************************************************************)
RngMod == 7

PriorStates == 0..MaxPrior

NextRandom(st) == (st + 1) % RngMod

\* random.choice(seq): advances the generator and indexes seq with its output.
RandomChoice(seq, st) ==
    LET s1 == NextRandom(st)
    IN  [value |-> seq[(s1 % Len(seq)) + 1], state |-> s1]

\* np.random.seed(seed): the state of numpy's generator after seeding.
NpSeeded(s) == s % RngMod

\* The state of the generator behind random.choice after line 46, which
\* seeds numpy's generator and leaves Python's as it was before the call.
PyRandomAfterSeeding(prior, s) == prior

(***************************************************************************)
(* The model specific samplers.  Each returns the sampled options and the  *)
(* state the generator is left in.                                         *)
(***************************************************************************)
RECURSIVE SampleKeys(_, _, _, _)
\* config[key] = random.choice(hd[key]) for every key of keys, in order.
SampleKeys(keys, hd, config, st) ==
    IF keys = <<>>
    THEN [config |-> config, state |-> st]
    ELSE LET c == RandomChoice(hd[Head(keys)], st)
         IN  SampleKeys(Tail(keys), hd, Put(config, Head(keys), c.value), c.state)

sample_conv_e_specifc_params(hd, st) == SampleKeys(CONV_E_KEYS, hd, EmptyDict, st)

\* The margin is drawn twice (the second draw overwrites the first); the
\* normalization option is assigned the candidate list itself.
sample_trans_x_specifc_params(hd, st) ==
    LET s == SampleKeys(<<MARGIN_LOSS, MARGIN_LOSS>>, hd, EmptyDict, st)
    IN  [config |-> Put(s.config, NORMALIZATION_OF_ENTITIES,
                        hd[NORMALIZATION_OF_ENTITIES]),
         state |-> s.state]

\* A dispatch that falls back to the translation sampler.
SelectSamplerWithDefault(model) ==
    IF model = CONV_E THEN "sample_conv_e_specifc_params"
    ELSE "sample_trans_x_specifc_params"

\* Lines 77-82: the sampler bound to param_sampling_fct; the name stays
\* unbound when neither test matches.
SelectSampler(model) ==
    IF model = CONV_E THEN "sample_conv_e_specifc_params"
    ELSE IF model \in {TRANS_E, TRANS_H, TRANS_D, TRANS_R}
         THEN "sample_trans_x_specifc_params"
         ELSE "unbound"

CallSampler(fct, hd, st) ==
    IF fct = "sample_conv_e_specifc_params"
    THEN sample_conv_e_specifc_params(hd, st)
    ELSE sample_trans_x_specifc_params(hd, st)

\* Lines 87-93: the general options written into the configuration dict.
SampleGeneral(config, st, sd) ==
    LET s == SampleKeys(<<LEARNING_RATE, EMBEDDING_DIM, NUM_EPOCHS, BATCH_SIZE>>,
                        hyperparams_dict, config, st)
    IN  [config |-> Put(Put(Put(s.config, NUM_ENTITIES, Cardinality(DOMAIN entity_to_id)),
                            NUM_RELATIONS, Cardinality(DOMAIN rel_to_id)),
                        SEED, sd),
         state |-> s.state]

\* Lines 87-96: one trial's sampling, for a bound sampler.
SampleTrial(config, st, sd, fct) ==
    LET g == SampleGeneral(config, st, sd)
        m == CallSampler(fct, hyperparams_dict, g.state)
    IN  [config |-> Update(g.config, m.config), state |-> m.state]

\* A loop that stops one iteration early.
LoopStopsEarly(i, n) == i + 1 < n

\* range(max_iters): whether the loop runs another iteration after i of them.
LoopContinues(i, n) == i < n

\* The first index of the smallest element instead of the largest.
ArgMin(a) ==
    CHOOSE i \in 1..Len(a) :
        /\ \A j \in 1..Len(a) : a[j] >= a[i]
        /\ \A j \in 1..(i - 1) : a[j] > a[i]

\* np.argmax: the first index (from 1) of the largest element.
ArgMax(a) ==
    CHOOSE i \in 1..Len(a) :
        /\ \A j \in 1..Len(a) : a[j] <= a[i]
        /\ \A j \in 1..(i - 1) : a[j] < a[i]

(***************************************************************************)
(* References to the two dicts created before the loop, and their          *)
(* resolution to the dict's current content.                               *)
(***************************************************************************)
ConfigRef == "ref:kg_embedding_model_config"
SummaryRef == "ref:eval_summary"

Deref(ref) ==
    IF ref = ConfigRef THEN kg_embedding_model_config ELSE eval_summary

(***************************************************************************)
(* optimize_hyperparams                                                    *)
(***************************************************************************)
HPOInputs ==
    /\ seed \in Seeds
    /\ max_iters \in 0..MaxIters
    /\ embedding_model \in ModelFamilies
    /\ eval_metrics \in SUBSET {MEAN_RANK, HITS_AT_K}
    /\ py_random_state \in PriorStates
    /\ np_random_state \in PriorStates

HPOLocalsUnset ==
    /\ it = 0
    /\ param_sampling_fct = "unbound"
    /\ kg_embedding_model_config = EmptyDict
    /\ eval_summary = EmptyDict
    /\ kg_embedding_model = None
    /\ trained_model = None
    /\ epoch_loss = None
    /\ trained_models = <<>>
    /\ epoch_losses = <<>>
    /\ entity_to_ids = <<>>
    /\ rel_to_ids = <<>>
    /\ models_params = <<>>
    /\ eval_summaries = <<>>
    /\ eval_results = <<>>
    /\ index_of_max = None
    /\ result = None
    /\ error = None

HPOInit == pc = "start" /\ HPOInputs /\ HPOLocalsUnset

inputs == <<seed, max_iters, embedding_model, eval_metrics>>
lists == <<trained_models, epoch_losses, entity_to_ids, rel_to_ids,
           models_params, eval_summaries, eval_results>>

\* Lines 46-82.
Start ==
    /\ pc = "start"
    /\ np_random_state' = NpSeeded(seed)
    /\ py_random_state' = PyRandomAfterSeeding(py_random_state, seed)
    /\ trained_models' = <<>>
    /\ eval_results' = <<>>
    /\ entity_to_ids' = <<>>
    /\ rel_to_ids' = <<>>
    /\ models_params' = <<>>
    /\ eval_summaries' = <<>>
    /\ epoch_losses' = <<>>
    /\ kg_embedding_model_config' = Put(EmptyDict, KG_EMBEDDING_MODEL, embedding_model)
    /\ eval_summary' = EmptyDict
    /\ param_sampling_fct' = SelectSampler(embedding_model)
    /\ pc' = "loop"
    /\ UNCHANGED <<inputs, it, kg_embedding_model, trained_model, epoch_loss,
                   index_of_max, result, error, tf_vars>>

\* Lines 84-96 with a sampler bound.
Sample ==
    /\ pc = "loop"
    /\ LoopContinues(it, max_iters)
    /\ param_sampling_fct # "unbound"
    /\ LET s == SampleTrial(kg_embedding_model_config, py_random_state, seed,
                            param_sampling_fct)
       IN  /\ kg_embedding_model_config' = s.config
           /\ py_random_state' = s.state
    /\ pc' = "sampled"
    /\ UNCHANGED <<inputs, np_random_state, it, param_sampling_fct, eval_summary,
                   kg_embedding_model, trained_model, epoch_loss, lists,
                   index_of_max, result, error, tf_vars>>

\* Lines 84-96 without one: the general options are sampled, then the call
\* through the unbound name raises.
SampleUnbound ==
    /\ pc = "loop"
    /\ LoopContinues(it, max_iters)
    /\ param_sampling_fct = "unbound"
    /\ LET g == SampleGeneral(kg_embedding_model_config, py_random_state, seed)
       IN  /\ kg_embedding_model_config' = g.config
           /\ py_random_state' = g.state
    /\ error' = "UnboundLocalError"
    /\ pc' = "error"
    /\ UNCHANGED <<inputs, np_random_state, it, param_sampling_fct, eval_summary,
                   kg_embedding_model, trained_model, epoch_loss, lists,
                   index_of_max, result, tf_vars>>

\* Lines 99-103: the factory builds a new model from the dict's content.
Build ==
    /\ pc = "sampled"
    /\ kg_embedding_model' = [trial |-> it + 1, config |-> kg_embedding_model_config]
    /\ models_params' = Append(models_params, ConfigRef)
    /\ entity_to_ids' = Append(entity_to_ids, entity_to_id)
    /\ rel_to_ids' = Append(rel_to_ids, rel_to_id)
    /\ pc' = "built"
    /\ UNCHANGED <<inputs, py_random_state, np_random_state, it, param_sampling_fct,
                   kg_embedding_model_config, eval_summary, trained_model,
                   epoch_loss, trained_models, epoch_losses, eval_summaries,
                   eval_results, index_of_max, result, error, tf_vars>>

\* A construction failure that is caught, noted, and the trial tried again.
BuildFailRetried ==
    /\ pc = "sampled"
    /\ error' = "ConstructionFailure"
    /\ pc' = "loop"
    /\ UNCHANGED <<inputs, py_random_state, np_random_state, it, param_sampling_fct,
                   kg_embedding_model_config, eval_summary, kg_embedding_model,
                   trained_model, epoch_loss, lists, index_of_max, result, tf_vars>>

\* Line 99: get_kg_embedding_model raises; nothing catches it.
BuildFail ==
    /\ pc = "sampled"
    /\ error' = "ConstructionFailure"
    /\ pc' = "error"
    /\ UNCHANGED <<inputs, py_random_state, np_random_state, it, param_sampling_fct,
                   kg_embedding_model_config, eval_summary, kg_embedding_model,
                   trained_model, epoch_loss, lists, index_of_max, result, tf_vars>>

\* Lines 105-110: train_model returns the trained model and one loss per epoch.
Train ==
    /\ pc = "built"
    /\ trained_model' = kg_embedding_model
    /\ epoch_loss' = [trial |-> kg_embedding_model.trial,
                      length |-> kg_embedding_model_config[NUM_EPOCHS]]
    /\ pc' = "trained"
    /\ UNCHANGED <<inputs, py_random_state, np_random_state, it, param_sampling_fct,
                   kg_embedding_model_config, eval_summary, kg_embedding_model,
                   lists, index_of_max, result, error, tf_vars>>

\* Lines 105-110: train_model raises; nothing catches it.
TrainFail ==
    /\ pc = "built"
    /\ error' = "TrainingFailure"
    /\ pc' = "error"
    /\ UNCHANGED <<inputs, py_random_state, np_random_state, it, param_sampling_fct,
                   kg_embedding_model_config, eval_summary, kg_embedding_model,
                   trained_model, epoch_loss, lists, index_of_max, result, tf_vars>>

\* Lines 113-139: the evaluators return some metric values for the model.
Evaluate ==
    /\ pc = "trained"
    /\ \E mean_rank \in 1..MaxMetric, hits_at_k \in 1..MaxMetric :
        LET is_mean_rank_selected == MEAN_RANK \in eval_metrics
            is_hits_at_k_selected == HITS_AT_K \in eval_metrics
        IN  CASE is_mean_rank_selected /\ is_hits_at_k_selected ->
                    /\ eval_summary' = Put(Put(eval_summary, MEAN_RANK, mean_rank),
                                           HITS_AT_K, hits_at_k)
                    /\ eval_results' = Append(eval_results, mean_rank)
                    /\ eval_summaries' = Append(eval_summaries, SummaryRef)
              [] is_mean_rank_selected /\ ~is_hits_at_k_selected ->
                    /\ eval_summary' = Put(eval_summary, MEAN_RANK, mean_rank)
                    /\ eval_results' = Append(eval_results, mean_rank)
                    /\ eval_summaries' = Append(eval_summaries, SummaryRef)
              [] is_hits_at_k_selected /\ ~is_mean_rank_selected ->
                    /\ eval_summary' = Put(eval_summary, HITS_AT_K, hits_at_k)
                    /\ eval_results' = Append(eval_results, hits_at_k)
                    /\ eval_summaries' = Append(eval_summaries, SummaryRef)
              [] OTHER ->
                    UNCHANGED <<eval_summary, eval_results, eval_summaries>>
    /\ pc' = "evaluated"
    /\ UNCHANGED <<inputs, py_random_state, np_random_state, it, param_sampling_fct,
                   kg_embedding_model_config, kg_embedding_model, trained_model,
                   epoch_loss, trained_models, epoch_losses, entity_to_ids,
                   rel_to_ids, models_params, index_of_max, result, error, tf_vars>>

\* Lines 141-142, and back to the loop head.
Record ==
    /\ pc = "evaluated"
    /\ trained_models' = Append(trained_models, trained_model)
    /\ epoch_losses' = Append(epoch_losses, epoch_loss)
    /\ it' = it + 1
    /\ pc' = "loop"
    /\ UNCHANGED <<inputs, py_random_state, np_random_state, param_sampling_fct,
                   kg_embedding_model_config, eval_summary, kg_embedding_model,
                   trained_model, epoch_loss, entity_to_ids, rel_to_ids,
                   models_params, eval_summaries, eval_results, index_of_max,
                   result, error, tf_vars>>

\* Lines 144-150.  The dicts are returned by reference.
Select ==
    /\ pc = "loop"
    /\ ~LoopContinues(it, max_iters)
    /\ eval_results # <<>>
    /\ LET i == ArgMax(eval_results)
       IN  /\ index_of_max' = i
           /\ result' = [trained_model |-> trained_models[i],
                         epoch_loss |-> epoch_losses[i],
                         entity_to_id |-> entity_to_ids[i],
                         rel_to_id |-> rel_to_ids[i],
                         eval_summary |-> eval_summaries[i],
                         metric |-> MEAN_RANK,
                         models_params |-> models_params[i]]
    /\ pc' = "done"
    /\ UNCHANGED <<inputs, py_random_state, np_random_state, it, param_sampling_fct,
                   kg_embedding_model_config, eval_summary, kg_embedding_model,
                   trained_model, epoch_loss, lists, error, tf_vars>>

\* Line 144 on an empty results list: np.argmax raises.
SelectEmpty ==
    /\ pc = "loop"
    /\ ~LoopContinues(it, max_iters)
    /\ eval_results = <<>>
    /\ error' = "ValueError"
    /\ pc' = "error"
    /\ UNCHANGED <<inputs, py_random_state, np_random_state, it, param_sampling_fct,
                   kg_embedding_model_config, eval_summary, kg_embedding_model,
                   trained_model, epoch_loss, lists, index_of_max, result, tf_vars>>

(***************************************************************************)
(* The triples factory is idle while a search is explored.                 *)
(***************************************************************************)
TFIdle ==
    /\ tf_pc = "idle"
    /\ triples = <<>>
    /\ create_inverse_triples = FALSE
    /\ entity_to_id_tf = EmptyDict
    /\ relation_to_id_tf = EmptyDict
    /\ mapped_triples = <<>>
    /\ num_entities = 0
    /\ num_relations = 0

Init == HPOInit /\ TFIdle

Next ==
    \/ Start
    \/ Sample
    \/ SampleUnbound
    \/ Build
    \/ BuildFail
    \/ Train
    \/ TrainFail
    \/ Evaluate
    \/ Record
    \/ Select
    \/ SelectEmpty

Spec == Init /\ [][Next]_vars

(***************************************************************************)
(* TriplesFactory                                                          *)
(***************************************************************************)
\* The labels a triples file may use, in sorted order.
EntityLabels == <<"a", "b", "c">>
RelationLabels == <<"knows", "likes">>

LabelTriples ==
    {<<EntityLabels[h], RelationLabels[r], EntityLabels[t]>> :
        h \in 1..Len(EntityLabels), r \in 1..Len(RelationLabels),
        t \in 1..Len(EntityLabels)}

TriplesFiles == UNION {[1..n -> LabelTriples] : n \in 1..MaxTriples}

Position(label, labels) == CHOOSE i \in 1..Len(labels) : labels[i] = label

\* A dense numbering 0..k-1 of the observed labels, in label order.
DenseIds(observed, labels) ==
    [l \in observed |->
        Cardinality({m \in observed : Position(m, labels) < Position(l, labels)})]

create_entity_and_relation_mappings(ts) ==
    [entity_to_id |->
        DenseIds({ts[i][1] : i \in 1..Len(ts)} \cup {ts[i][3] : i \in 1..Len(ts)},
                 EntityLabels),
     relation_to_id |-> DenseIds({ts[i][2] : i \in 1..Len(ts)}, RelationLabels)]

map_triples_elements_to_ids(ts, e2i, r2i) ==
    [i \in 1..Len(ts) |-> <<e2i[ts[i][1]], r2i[ts[i][2]], e2i[ts[i][3]]>>]

\* A flip of the columns only (axis=1).
FlipColumns(m) ==
    [i \in 1..Len(m) |-> <<m[i][3], m[i][2], m[i][1]>>]

\* np.flip(m) without an axis: reverses the array along every axis, the
\* rows as well as the columns.
Flip(m) ==
    [i \in 1..Len(m) |->
        LET row == m[Len(m) + 1 - i] IN <<row[3], row[2], row[1]>>]

\* m[:, 1:2] += n
AddToRelationColumn(m, n) ==
    [i \in 1..Len(m) |-> <<m[i][1], m[i][2] + n, m[i][3]>>]

\* The relation count doubled before it is used as the offset.
CreateInverseTriplesDoubledFirst(mapped, n_rel) ==
    LET inverse_triples == AddToRelationColumn(Flip(mapped), n_rel * 2)
    IN  [mapped_triples |-> mapped \o inverse_triples,
         num_relations |-> n_rel * 2]

\* Lines 47-55: the new mapped_triples and num_relations.
CreateInverseTriples(mapped, n_rel) ==
    LET inverse_triples == AddToRelationColumn(Flip(mapped), n_rel)
    IN  [mapped_triples |-> mapped \o inverse_triples,
         num_relations |-> n_rel * 2]

TFInit ==
    /\ tf_pc = "new"
    /\ triples \in TriplesFiles
    /\ create_inverse_triples \in BOOLEAN
    /\ entity_to_id_tf = EmptyDict
    /\ relation_to_id_tf = EmptyDict
    /\ mapped_triples = <<>>
    /\ num_entities = 0
    /\ num_relations = 0

\* Lines 26-42: __init__, with the call of _create_inverse_triples it makes.
TFConstruct ==
    /\ tf_pc = "new"
    /\ LET maps == create_entity_and_relation_mappings(triples)
           mapped == map_triples_elements_to_ids(triples, maps.entity_to_id,
                                                 maps.relation_to_id)
           n_rel == Cardinality(DOMAIN maps.relation_to_id)
           inv == CreateInverseTriples(mapped, n_rel)
       IN  /\ entity_to_id_tf' = maps.entity_to_id
           /\ relation_to_id_tf' = maps.relation_to_id
           /\ num_entities' = Cardinality(DOMAIN maps.entity_to_id)
           /\ mapped_triples' = IF create_inverse_triples
                                THEN inv.mapped_triples ELSE mapped
           /\ num_relations' = IF create_inverse_triples
                               THEN inv.num_relations ELSE n_rel
    /\ tf_pc' = "built"
    /\ UNCHANGED <<triples, create_inverse_triples, hpo_vars>>

\* No search runs while a triples factory is explored.
HPOIdle ==
    /\ pc = "idle"
    /\ seed = 0
    /\ max_iters = 0
    /\ embedding_model = TRANS_E
    /\ eval_metrics = {}
    /\ py_random_state = 0
    /\ np_random_state = 0
    /\ HPOLocalsUnset

InitTF == HPOIdle /\ TFInit

NextTF == TFConstruct

SpecTF == InitTF /\ [][NextTF]_vars

(***************************************************************************)
(* Properties of optimize_hyperparams, checked under Spec.                 *)
(***************************************************************************)
\* The metric whose value is appended to eval_results.
PrimaryMetric == IF MEAN_RANK \in eval_metrics THEN MEAN_RANK ELSE HITS_AT_K

\* C1: the value appended to eval_results in a trial is that trial's primary
\* metric (mean rank if requested, else hits-at-k); the returned trial is the
\* one at the index whose result is the maximum of eval_results, and the
\* returned model and epoch-loss history were produced in that same trial.
C1_SelectsMaximum ==
    /\ (pc = "evaluated" /\ eval_metrics # {}) =>
            eval_results[Len(eval_results)] = eval_summary[PrimaryMetric]
    /\ pc = "done" =>
        /\ max_iters >= 1 /\ eval_metrics # {}
        /\ index_of_max \in 1..Len(eval_results)
        /\ \A j \in 1..Len(eval_results) :
                eval_results[index_of_max] >= eval_results[j]
        /\ result.trained_model = trained_models[index_of_max]
        /\ result.trained_model.trial = index_of_max
        /\ result.epoch_loss = epoch_losses[index_of_max]
        /\ result.epoch_loss.trial = index_of_max

\* A search of two trials whose first trial scored higher has returned.
C1_Witness ==
    /\ pc = "done"
    /\ Len(eval_results) = 2
    /\ eval_results[1] > eval_results[2]
    /\ result.trained_model.trial = 1

\* C2: the configuration returned is the configuration that was sampled and
\* passed to the model factory in the selected trial.
C2_ReturnedConfigIsSelectedTrials ==
    pc = "done" =>
        Deref(result.models_params) = trained_models[index_of_max].config

\* C3: the summary stored at index i keeps the metric values computed in
\* trial i: at every point its primary value is the i-th entry of
\* eval_results, and so is the returned summary's at the selected index.
C3_SummaryNeverMutated ==
    /\ \A i \in 1..Len(eval_summaries) :
            Deref(eval_summaries[i])[PrimaryMetric] = eval_results[i]
    /\ pc = "done" =>
            Deref(result.eval_summary)[PrimaryMetric] = eval_results[index_of_max]

\* C4: trials run one at a time and in order (a trial is started only after
\* the previous one was recorded), a search that returns has performed
\* exactly max_iters full trials, and with max_iters = 1 it returns the
\* record of its one trial.
C4_ExactlyMaxItersTrials ==
    /\ it <= max_iters
    /\ Len(trained_models) = it /\ Len(epoch_losses) = it
    /\ \A i \in 1..it : trained_models[i].trial = i /\ epoch_losses[i].trial = i
    /\ pc # "error" =>
            Len(models_params) =
                IF pc \in {"built", "trained", "evaluated"} THEN it + 1 ELSE it
    /\ (pc \in {"sampled", "built", "trained", "evaluated"}) => it < max_iters
    /\ (pc \in {"built", "trained", "evaluated"}) => kg_embedding_model.trial = it + 1
    /\ pc = "done" =>
        /\ it = max_iters
        /\ Len(trained_models) = max_iters
        /\ Len(models_params) = max_iters
        /\ Len(eval_results) = max_iters
        /\ max_iters = 1 =>
            /\ index_of_max = 1
            /\ result.trained_model.trial = 1
            /\ result.epoch_loss.trial = 1
            /\ Deref(result.models_params) = result.trained_model.config
            /\ Deref(result.eval_summary)[PrimaryMetric] = eval_results[1]

\* A search with the largest budget has returned.
C4_Witness ==
    /\ pc = "done"
    /\ max_iters = MaxIters
    /\ Len(trained_models) = MaxIters

\* C7: the returned metric label is the mean-rank constant only if mean rank
\* was among the requested metrics.
C7_LabelIsMeanRankOnlyIfRequested ==
    pc = "done" => (result.metric = MEAN_RANK => MEAN_RANK \in eval_metrics)

KnownFamilies == {TRANS_E, TRANS_H, TRANS_D, TRANS_R, CONV_E}

\* C8: with a model family that is neither translation based nor
\* convolutional, the search builds and trains no model, returns no record,
\* and, whatever the trial budget, its only step after the start is one that
\* raises (at the first trial's sampling, or at the selection when the
\* budget is 0).
C8_UnknownFamilyEndsInError ==
    embedding_model \notin KnownFamilies =>
        /\ pc \in {"start", "loop", "error"}
        /\ result = None
        /\ kg_embedding_model = None /\ trained_model = None
        /\ models_params = <<>> /\ trained_models = <<>>
        /\ it = 0
        /\ pc = "error" =>
                error = IF max_iters = 0 THEN "ValueError" ELSE "UnboundLocalError"
        /\ pc # "error" => ENABLED (Start \/ SampleUnbound \/ SelectEmpty)

\* A search for an unknown family with a positive budget has raised.
C8_Witness ==
    /\ embedding_model \notin KnownFamilies
    /\ max_iters >= 1
    /\ pc = "error"
    /\ error = "UnboundLocalError"

RECURSIVE SampledInTrial(_, _, _, _, _)
\* The configuration sampled in trial i of a run that enters its loop with
\* the configuration dict config and the generator in state st.
SampledInTrial(i, config, st, sd, fct) ==
    LET s == SampleTrial(config, st, sd, fct)
    IN  IF i = 1 THEN s.config
        ELSE SampledInTrial(i - 1, s.config, s.state, sd, fct)

\* C9: the configuration sampled in every trial is the one any run with the
\* same seed, search configuration and data samples in that trial, whatever
\* state the sampler was in before that run's call.
C9_SameSeedSameSamples ==
    pc = "sampled" =>
        \A prior \in PriorStates :
            kg_embedding_model_config =
                SampledInTrial(it + 1,
                               Put(EmptyDict, KG_EMBEDDING_MODEL, embedding_model),
                               PyRandomAfterSeeding(prior, seed), seed,
                               SelectSampler(embedding_model))

\* C10: once model construction or training has failed, the search is in its
\* error state with nothing returned, and nothing happens after: no later
\* trial, no retry, no record.
C10_FailureAbortsSearch ==
    /\ [](error \in {"ConstructionFailure", "TrainingFailure"} =>
            pc = "error" /\ result = None /\ index_of_max = None)
    /\ [][(error \in {"ConstructionFailure", "TrainingFailure"}) =>
            (hpo_vars' = hpo_vars)]_vars

\* Training failed in the second trial, after a first trial was recorded.
C10_Witness ==
    /\ error = "TrainingFailure"
    /\ it = 1
    /\ Len(trained_models) = 1
    /\ result = None

\* Python's ==, which is defined between values of any two types (a number
\* never equals a list): the values are compared through their printed form.
PyEquals(a, b) == ToString(a) = ToString(b)

\* value in candidates
IsCandidate(value, candidates) ==
    \E i \in 1..Len(candidates) : PyEquals(value, candidates[i])

GeneralOptions == {LEARNING_RATE, EMBEDDING_DIM, NUM_EPOCHS, BATCH_SIZE}

\* The model specific options of the configured family.
FamilyOptions ==
    IF embedding_model = CONV_E
    THEN {CONV_E_KEYS[i] : i \in 1..Len(CONV_E_KEYS)}
    ELSE {MARGIN_LOSS, NORMALIZATION_OF_ENTITIES}

\* C11: in every trial each sampled option, general or specific to the model
\* family (margin and normalization flag for a translation based family),
\* holds one element of that option's candidate list, and the entity count,
\* relation count and seed are the ones of the fixed inputs.
C11_SampledOptionsAreCandidates ==
    pc = "sampled" =>
        /\ \A k \in GeneralOptions \cup FamilyOptions :
                /\ k \in DOMAIN kg_embedding_model_config
                /\ IsCandidate(kg_embedding_model_config[k], hyperparams_dict[k])
        /\ kg_embedding_model_config[NUM_ENTITIES] = Cardinality(DOMAIN entity_to_id)
        /\ kg_embedding_model_config[NUM_RELATIONS] = Cardinality(DOMAIN rel_to_id)
        /\ kg_embedding_model_config[SEED] = seed

\* C12: at the end of every completed trial k, whatever metrics were
\* requested, each of the seven per-trial collections has exactly k entries.
C12_CollectionsStayParallel ==
    (pc \in {"loop", "done"} /\ it >= 1) =>
        /\ Len(trained_models) = it
        /\ Len(epoch_losses) = it
        /\ Len(entity_to_ids) = it
        /\ Len(rel_to_ids) = it
        /\ Len(models_params) = it
        /\ Len(eval_summaries) = it
        /\ Len(eval_results) = it

(***************************************************************************)
(* Properties of the triples factory, checked under SpecTF.                *)
(***************************************************************************)
\* The mapped triples before augmentation, and the relation count N.
OriginalMapped ==
    map_triples_elements_to_ids(triples, entity_to_id_tf, relation_to_id_tf)

OriginalNumRelations == Cardinality(DOMAIN relation_to_id_tf)

Inverse(row, n) == <<row[3], row[2] + n, row[1]>>

\* C5: with create_inverse_triples, n mapped triples over N relations become
\* 2n rows that contain (t, r+N, h) for every original (h, r, t);
\* num_relations is 2N; the first n rows are the original rows, with
\* relation ids below N, and the appended rows have relation ids in [N, 2N).
C5_InverseAugmentation ==
    (tf_pc = "built" /\ create_inverse_triples) =>
        LET n == Len(triples)
            N == OriginalNumRelations
        IN  /\ Len(mapped_triples) = 2 * n
            /\ num_relations = 2 * N
            /\ \A i \in 1..n :
                /\ mapped_triples[i] = OriginalMapped[i]
                /\ mapped_triples[i][2] \in 0..(N - 1)
                /\ \E j \in 1..(2 * n) :
                        mapped_triples[j] = Inverse(OriginalMapped[i], N)
            /\ \A i \in (n + 1)..(2 * n) : mapped_triples[i][2] \in N..(2 * N - 1)

\* A factory with inverse triples was built from two triples over two relations.
C5_Witness ==
    /\ tf_pc = "built"
    /\ create_inverse_triples
    /\ Len(triples) = 2
    /\ OriginalNumRelations = 2
    /\ Len(mapped_triples) = 4

\* C6 as stated: row n+i is the inverse of row i.
C6_InversesInSameOrder ==
    (tf_pc = "built" /\ create_inverse_triples) =>
        LET n == Len(triples)
        IN  \A i \in 1..n :
                mapped_triples[n + i] = Inverse(mapped_triples[i], OriginalNumRelations)

\* C6 as amended: the appended rows are in reverse order, row n+i is the
\* inverse of row n+1-i.
C6_InversesInReverseOrder ==
    (tf_pc = "built" /\ create_inverse_triples) =>
        LET n == Len(triples)
        IN  /\ Len(mapped_triples) = 2 * n
            /\ \A i \in 1..n :
                mapped_triples[n + i] =
                    Inverse(mapped_triples[n + 1 - i], OriginalNumRelations)

\* A factory with inverse triples was built from two different triples.
C6_Witness ==
    /\ tf_pc = "built"
    /\ create_inverse_triples
    /\ Len(triples) = 2
    /\ triples[1] # triples[2]
    /\ mapped_triples[3] = Inverse(mapped_triples[2], OriginalNumRelations)
    /\ mapped_triples[3] # Inverse(mapped_triples[1], OriginalNumRelations)

====
